---- MODULE Spec2Model ----
(***************************************************************************)
(* Model of sfs-node (src/src/index.ts): the save / dedup / cleanup        *)
(* pipeline of initFunctions(config).saveFile, run against the in-memory   *)
(* metadata store of the README quick start (src/unnamed/part_001).        *)
(*                                                                         *)
(* Strings that the code concatenates (mask, ids, urls) are sequences of   *)
(* one-character strings; names, logical paths, hashes and extensions are  *)
(* atoms.  A file of publicFolder is the pair [hash, ext] standing for the *)
(* name hash + extension (a hex digest holds no dot, so the pair and the   *)
(* concatenation determine each other).  Timestamps (last_modified,        *)
(* publishedAt) are left out of the record: nothing reads them.            *)
(***************************************************************************)
EXTENDS Integers, Sequences, FiniteSets, TLC

\* Number of saveFile calls a behaviour may start.
MaxSaves == 3

\* The slots in which a saveFile call runs (one call per slot at a time).
Calls == {1, 2}

----------------------------------------------------------------------------
\* Inputs

\* file.data: the empty buffer and a PNG image.
Contents == {"empty", "png"}

\* file.name, as uploaded.  "%" is not a valid URI escape: decodeURI throws.
Names == {"a.txt", "a", "%"}

\* options.filePath; "" is falsy like a missing option.
FilePathOptions == {"", "/a"}

\* An sfsFileId is a string or a number (line 26); a number is kept as its
\* decimal text with its kind, an option that was not passed as "absent".
Str(text) == [kind |-> "string", text |-> text]
Num(text) == [kind |-> "number", text |-> text]
NoId == [kind |-> "absent", text |-> <<>>]

\* options.id: not passed, or the string "7".
IdOptions == {NoId, Str(<<"7">>)}

\* options.id as a caller may pass it: also the number 7, and the falsy ids
\* "" and 0.
AnyIdOptions == {NoId, Str(<<"7">>), Num(<<"7">>), Str(<<>>), Num(<<"0">>)}

\* options.additionalData: not passed (spreading undefined adds nothing), an
\* extra field, or a field that is also one of the record's own.
NoData == <<>>
AdditionalDataOptions == {NoData, [note |-> "n"], [id |-> Str(<<"9">>)]}

\* config.mask, without and with the trailing separator.
Masks == {<<"m">>, <<"m", "/">>}

Digits == <<"0", "1", "2", "3", "4", "5", "6", "7", "8", "9">>

----------------------------------------------------------------------------
\* Pure helpers of saveFile

\* "no value": undefined / null / a missing record.
NoRecord == [none |-> TRUE]

\* createHash("sha256").update(file.data).digest("hex"): one digest per content.
Hash(data) == IF data = "empty" THEN "h0" ELSE "h1"

Hashes == {Hash(d) : d \in Contents}

\* fs.statSync(path).size of a file holding the content with this digest.
StatSize(hash) == IF hash = "h0" THEN 0 ELSE 5

\* decodeURI(file.name): throws URIError on a malformed escape sequence.
DecodeThrows(rawName) == rawName = "%"

\* path.extname(name)
ExtName(name) == IF name = "a.txt" THEN ".txt" ELSE ""

\* fileTypeFromBuffer(file.data): undefined when no signature is recognised.
FileTypeExt(data) == IF data = "png" THEN "png" ELSE ""

\* Lines 200-209: the extension of the name, else the sniffed one, else "".
Extension(name, data) ==
    IF ExtName(name) # ""
    THEN ExtName(name)
    ELSE IF FileTypeExt(data) # "" THEN ".png" ELSE ""

\* dotExtensionToCategotry(extension) of sfs-file-type.
DotExtensionToCategory(ext) ==
    CASE ext = ".txt" -> "document"
      [] ext = ".png" -> "image"
      [] OTHER -> "other"

\* path.join(publicFolder, hash + extension)
ConstPath(hash, ext) == [hash |-> hash, ext |-> ext]

\* uid(): the n-th generated id; never an id a caller passes.
Uid(n) == Str(<<"u", Digits[n + 1]>>)

\* JavaScript truthiness of an id: undefined, "" and 0 are falsy.
Falsy(id) ==
    \/ id.kind = "absent"
    \/ id.kind = "string" /\ id.text = <<>>
    \/ id.kind = "number" /\ id.text = <<"0">>

\* An id as the operand of a string concatenation: a number becomes its
\* decimal text.
IdText(id) == id.text

\* mask.endsWith("/")
EndsWithSlash(m) == Len(m) > 0 /\ m[Len(m)] = "/"

\* Faulty variant: the separator is appended whatever the mask ends with.
IdToUrl_AlwaysAppend(m, id) == m \o <<"/">> \o IdText(id)

\* idToUrl: (mask.endsWith("/") ? mask : mask + "/") + id
IdToUrl(m, id) == (IF EndsWithSlash(m) THEN m ELSE m \o <<"/">>) \o IdText(id)

\* The first index at which pat occurs in s, 0 when it does not.
IndexOf(s, pat) ==
    LET hits == {i \in 1..(Len(s) - Len(pat) + 1) :
                    SubSeq(s, i, i + Len(pat) - 1) = pat}
    IN  IF hits = {} THEN 0 ELSE CHOOSE i \in hits : \A j \in hits : i <= j

\* s.replace(pat, ""): the first occurrence of the string pat is cut out.
RemoveFirst(s, pat) ==
    LET i == IndexOf(s, pat)
    IN  IF i = 0 THEN s ELSE SubSeq(s, 1, i - 1) \o SubSeq(s, i + Len(pat), Len(s))

\* Faulty variant: the mask is removed without its separator.
UrlToId_MaskOnly(m, url) == Str(RemoveFirst(url, m))

\* urlToId (lines 126-127): the result is a string.
UrlToId(m, url) ==
    Str(IF EndsWithSlash(m)
        THEN RemoveFirst(url, m)
        ELSE RemoveFirst(url, m \o <<"/">>))

----------------------------------------------------------------------------
\* The metadata store of the README quick start: a Map keyed by id, which
\* keeps insertion order; a sequence of records here.

Range(seq) == {seq[i] : i \in 1..Len(seq)}

\* getFileByHash: [...files.values()].find((f) => f.hash === hash)
GetFileByHash(st, hash) ==
    IF \E i \in 1..Len(st) : st[i].hash = hash
    THEN st[CHOOSE i \in 1..Len(st) :
                /\ st[i].hash = hash
                /\ \A j \in 1..(i - 1) : st[j].hash # hash]
    ELSE NoRecord

\* createFile: files.set(file.id, file); a known id keeps its place in the Map.
CreateFile(st, file) ==
    IF \E i \in 1..Len(st) : st[i].id = file.id
    THEN [i \in 1..Len(st) |-> IF st[i].id = file.id THEN file ELSE st[i]]
    ELSE Append(st, file)

----------------------------------------------------------------------------
\* The decisions of saveFile

\* Faulty variant: the upload is moved whether or not the hash is known.
ShouldWrite_Always(fileInfo) == TRUE

\* Lines 215-222: the upload is moved into publicFolder only when the lookup
\* by hash found nothing.
ShouldWrite(fileInfo) == fileInfo = NoRecord

\* Faulty variant: the logical path is not compared.
ShouldCreate_IgnoringPath(fileInfo, filePath, allowDup) ==
    fileInfo = NoRecord \/ allowDup

\* Faulty variant: a record is created on every upload.
ShouldCreate_Always(fileInfo, filePath, allowDup) == TRUE

\* Line 224: !!!fileInfo || filePath !== fileInfo.path || allowDuplicates
ShouldCreate(fileInfo, filePath, allowDup) ==
    \/ fileInfo = NoRecord
    \/ filePath # fileInfo.path
    \/ allowDup

\* Line 225: fileInfo?.size || ... : statSync runs when the left side is falsy.
NeedsStat(fileInfo) == fileInfo = NoRecord \/ fileInfo.size = 0

\* Line 226: fileInfo?.type || dotExtensionToCategotry(extension)
TypeOf(fileInfo, ext) ==
    IF fileInfo # NoRecord /\ fileInfo.type # ""
    THEN fileInfo.type
    ELSE DotExtensionToCategory(ext)

\* Faulty variant: the cleanup never runs.
NeedsCleanup_Never(fileInfo, constPath, dsk) == FALSE

\* Faulty variant: the cleanup does not look at fileInfo.
NeedsCleanup_Always(fileInfo, constPath, dsk) == constPath \in dsk

\* Line 247: !fileInfo && fs.existsSync(constPath)
NeedsCleanup(fileInfo, constPath, dsk) ==
    fileInfo = NoRecord /\ constPath \in dsk

\* Lines 228-238: the record handed to createFile, before the spread of
\* options.additionalData (line 238).
FileData(id, name, ext, hash, size, type, filePath) ==
    [id |-> id, name |-> name, extension |-> ext, hash |-> hash,
     size |-> size, type |-> type, path |-> filePath]

\* { ...base, ...extra }: the fields of extra win.
Spread(base, extra) ==
    [f \in (DOMAIN base) \cup (DOMAIN extra) |->
        IF f \in DOMAIN extra THEN extra[f] ELSE base[f]]

\* Lines 243 and 261: record.url = idToUrl(record.id)
WithUrl(m, r) == Spread(r, [url |-> IdToUrl(m, r.id)])

\* How a call ends: a rejected promise (line 267), a resolved promise carrying
\* a record (lines 244, 263), or one carrying undefined (the end of the
\* function body after the catch block of lines 245-255).
Pending == [kind |-> "pending", file |-> NoRecord]
Threw == [kind |-> "threw", file |-> NoRecord]
ReturnedUndefined == [kind |-> "undefined", file |-> NoRecord]
Returned(file) == [kind |-> "record", file |-> file]

----------------------------------------------------------------------------
\* State

VARIABLES
    allowDuplicates,  \* config.allowDuplicates
    mask,             \* config.mask
    store,            \* the metadata store: the records of the Map, in order
    disk,             \* the files of publicFolder
    nextUid,          \* how many ids uid() has generated
    saves,            \* how many saveFile calls have started
    call,             \* per slot: the locals of the saveFile call running in it
    writes,           \* history: per hash, how often file.mv wrote a file
    rollbacks,        \* history: per hash, how often the cleanup unlinked a file
    overwritten,      \* history: createFile replaced a record it had stored
    op,               \* the call of resolveFilePath or of a delete operation
                      \* that has just ended
    codec             \* an id taken through idToUrl and urlToId

vars == <<allowDuplicates, mask, store, disk, nextUid, saves, call,
          writes, rollbacks, overwritten, op, codec>>

\* What saveFile leaves alone.
helpers == <<op, codec>>

\* No helper was called yet.
NoOp ==
    [name |-> "", hash |-> "", id |-> NoId, lookupThrew |-> FALSE,
     result |-> "", resolved |-> NoRecord,
     storeBefore |-> <<>>, diskBefore |-> {}]

\* No id was converted yet.
IdleCodec == [pc |-> "idle", id |-> NoId, url |-> <<>>, sibling |-> <<>>, back |-> NoId]

\* A slot in which no call runs.
IdleCall ==
    [pc |-> "idle", filePath |-> "", id |-> NoId, name |-> "", hash |-> "",
     optionsId |-> NoId, additionalData |-> NoData,
     extension |-> "", fileInfo |-> NoRecord, fileData |-> NoRecord,
     mvCalls |-> 0, createCalls |-> 0, unlinked |-> FALSE, failedAt |-> "",
     result |-> Pending, storeBefore |-> <<>>, diskBefore |-> {}]

Init ==
    /\ allowDuplicates \in BOOLEAN
    /\ mask \in Masks
    /\ store = <<>>
    /\ disk = {}
    /\ nextUid = 0
    /\ saves = 0
    /\ call = [c \in Calls |-> IdleCall]
    /\ writes = [h \in Hashes |-> 0]
    /\ rollbacks = [h \in Hashes |-> 0]
    /\ overwritten = FALSE
    /\ op = NoOp
    /\ codec = IdleCodec

NoneInFlight == \A c \in Calls : call[c].pc = "idle"

\* Faulty variant: the outer catch logs and swallows the error.
Fail_Swallowed(cr, where) ==
    [cr EXCEPT !.pc = "done", !.failedAt = where, !.result = ReturnedUndefined]

\* The outer catch of saveFile (lines 265-268): log and throw new Error(err).
Fail(cr, where) == [cr EXCEPT !.pc = "done", !.failedAt = where, !.result = Threw]

----------------------------------------------------------------------------
\* saveFile (lines 183-269), one action per stretch between two awaits

\* Lines 191-212: defaults, name, hash, extension, constPath, up to the call
\* of getFileByHash.  uid() runs only when options.id is falsy.  A new call
\* takes the first free slot.
Start(c, file, options) ==
    /\ call[c].pc = "idle"
    /\ \A d \in Calls : d < c => call[d].pc # "idle"
    /\ saves < MaxSaves
    /\ saves' = saves + 1
    /\ nextUid' = IF Falsy(options.id) THEN nextUid + 1 ELSE nextUid
    /\ LET filePath == IF options.filePath = "" THEN "/" ELSE options.filePath
           id == IF Falsy(options.id) THEN Uid(nextUid) ELSE options.id
           begun == [IdleCall EXCEPT !.filePath = filePath, !.id = id,
                                     !.optionsId = options.id,
                                     !.additionalData = options.additionalData,
                                     !.storeBefore = store, !.diskBefore = disk]
       IN  call' = [call EXCEPT ![c] =
                IF DecodeThrows(file.name)
                THEN Fail(begun, "decode")
                ELSE [begun EXCEPT !.pc = "lookup",
                                   !.name = file.name,
                                   !.hash = Hash(file.data),
                                   !.extension = Extension(file.name, file.data)]]
    /\ UNCHANGED <<allowDuplicates, mask, store, disk, writes, rollbacks, overwritten>>
    /\ UNCHANGED helpers

\* Lines 224-242 and 258-264, run without suspension once fileInfo is known and
\* the write (if any) is done: either createFile is called with the assembled
\* record, or the existing record is returned with its url.
Continue(cr, dsk) ==
    LET constPath == ConstPath(cr.hash, cr.extension) IN
    IF ShouldCreate(cr.fileInfo, cr.filePath, allowDuplicates)
    THEN IF NeedsStat(cr.fileInfo) /\ constPath \notin dsk
         THEN Fail(cr, "stat")
         ELSE [cr EXCEPT
                 !.pc = "create",
                 !.createCalls = @ + 1,
                 !.fileData = Spread(
                     FileData(cr.id, cr.name, cr.extension, cr.hash,
                              IF NeedsStat(cr.fileInfo)
                              THEN StatSize(cr.hash) ELSE cr.fileInfo.size,
                              TypeOf(cr.fileInfo, cr.extension), cr.filePath),
                     cr.additionalData)]
    ELSE [cr EXCEPT !.pc = "done",
                    !.result = Returned(WithUrl(mask, cr.fileInfo))]

\* Faulty variant: a call that finds another call busy with the same hash
\* leaves the write to it.
Lookup_Coalescing(c) ==
    /\ call[c].pc = "lookup"
    /\ LET found == [call[c] EXCEPT !.fileInfo = GetFileByHash(store, call[c].hash)]
           busy == \E d \in Calls \ {c} :
                       /\ call[d].hash = call[c].hash
                       /\ call[d].pc \in {"mv", "moved", "create"}
       IN  call' = [call EXCEPT ![c] =
                IF ShouldWrite(found.fileInfo) /\ ~busy
                THEN [found EXCEPT !.pc = "mv", !.mvCalls = @ + 1]
                ELSE Continue(found, disk)]
    /\ UNCHANGED <<allowDuplicates, mask, store, disk, nextUid, saves,
                   writes, rollbacks, overwritten>>
    /\ UNCHANGED helpers

\* Line 212 resolves: fileInfo is what the store holds for the hash.  A new
\* content goes on to file.mv (line 221), a known one straight to line 224.
Lookup(c) ==
    /\ call[c].pc = "lookup"
    /\ LET found == [call[c] EXCEPT !.fileInfo = GetFileByHash(store, call[c].hash)]
       IN  call' = [call EXCEPT ![c] =
                IF ShouldWrite(found.fileInfo)
                THEN [found EXCEPT !.pc = "mv", !.mvCalls = @ + 1]
                ELSE Continue(found, disk)]
    /\ UNCHANGED <<allowDuplicates, mask, store, disk, nextUid, saves,
                   writes, rollbacks, overwritten>>
    /\ UNCHANGED helpers

\* Line 212 rejects: getFileByHash throws.
LookupThrows(c) ==
    /\ call[c].pc = "lookup"
    /\ call' = [call EXCEPT ![c] = Fail(call[c], "lookup")]
    /\ UNCHANGED <<allowDuplicates, mask, store, disk, nextUid, saves,
                   writes, rollbacks, overwritten>>
    /\ UNCHANGED helpers

\* file.mv(constPath) puts the upload at constPath.
Mv(c) ==
    /\ call[c].pc = "mv"
    /\ disk' = disk \cup {ConstPath(call[c].hash, call[c].extension)}
    /\ writes' = [writes EXCEPT ![call[c].hash] = @ + 1]
    /\ call' = [call EXCEPT ![c].pc = "moved"]
    /\ UNCHANGED <<allowDuplicates, mask, store, nextUid, saves, rollbacks, overwritten>>
    /\ UNCHANGED helpers

\* file.mv(constPath) rejects and leaves no file.
MvThrows(c) ==
    /\ call[c].pc = "mv"
    /\ call' = [call EXCEPT ![c] = Fail(call[c], "mv")]
    /\ UNCHANGED <<allowDuplicates, mask, store, disk, nextUid, saves,
                   writes, rollbacks, overwritten>>
    /\ UNCHANGED helpers

\* Line 221 resolves: on to line 224.
AfterMv(c) ==
    /\ call[c].pc = "moved"
    /\ call' = [call EXCEPT ![c] = Continue(call[c], disk)]
    /\ UNCHANGED <<allowDuplicates, mask, store, disk, nextUid, saves,
                   writes, rollbacks, overwritten>>
    /\ UNCHANGED helpers

\* Lines 242-244: createFile stores the record and returns it.
CreateOk(c) ==
    /\ call[c].pc = "create"
    /\ store' = CreateFile(store, call[c].fileData)
    /\ overwritten' = (overwritten \/ \E r \in Range(store) : r \notin Range(store'))
    /\ call' = [call EXCEPT ![c].pc = "done",
                            ![c].result = Returned(WithUrl(mask, call[c].fileData))]
    /\ UNCHANGED <<allowDuplicates, mask, disk, nextUid, saves, writes, rollbacks>>
    /\ UNCHANGED helpers

\* Lines 245-255: createFile throws and stores nothing; the catch block removes
\* the file of a new content and does not rethrow, so the body runs to its end.
CreateThrows(c) ==
    /\ call[c].pc = "create"
    /\ LET constPath == ConstPath(call[c].hash, call[c].extension)
           cleanup == NeedsCleanup(call[c].fileInfo, constPath, disk)
       IN  /\ disk' = IF cleanup THEN disk \ {constPath} ELSE disk
           /\ rollbacks' = IF cleanup
                           THEN [rollbacks EXCEPT ![call[c].hash] = @ + 1]
                           ELSE rollbacks
           /\ call' = [call EXCEPT ![c].pc = "done",
                                   ![c].failedAt = "create",
                                   ![c].unlinked = cleanup,
                                   ![c].result = ReturnedUndefined]
    /\ UNCHANGED <<allowDuplicates, mask, store, nextUid, saves, writes, overwritten>>
    /\ UNCHANGED helpers

\* The caller has the outcome; the slot is free again.
Return(c) ==
    /\ call[c].pc = "done"
    /\ call' = [call EXCEPT ![c] = IdleCall]
    /\ UNCHANGED <<allowDuplicates, mask, store, disk, nextUid, saves,
                   writes, rollbacks, overwritten>>
    /\ UNCHANGED helpers

\* Non-overlapping calls: a call starts only when none is in flight.
Next ==
    \/ \E c \in Calls, data \in Contents, name \in Names,
          fp \in FilePathOptions, id \in IdOptions :
            /\ NoneInFlight
            /\ Start(c, [name |-> name, data |-> data],
                     [filePath |-> fp, id |-> id, additionalData |-> NoData])
    \/ \E c \in Calls : Lookup(c)
    \/ \E c \in Calls : LookupThrows(c)
    \/ \E c \in Calls : Mv(c)
    \/ \E c \in Calls : MvThrows(c)
    \/ \E c \in Calls : AfterMv(c)
    \/ \E c \in Calls : CreateOk(c)
    \/ \E c \in Calls : CreateThrows(c)
    \/ \E c \in Calls : Return(c)

Spec == Init /\ [][Next]_vars

----------------------------------------------------------------------------
\* Properties of saveFile

Finished(c) == call[c].pc = "done"

\* The file a call addresses: publicFolder/(hash + extension).
TargetOf(c) == ConstPath(call[c].hash, call[c].extension)

FilesOfHash(h) == {f \in disk : f.hash = h}

C2_NoRollbackOfSharedContent ==
    \A c \in Calls :
        (Finished(c) /\ call[c].fileInfo # NoRecord /\ call[c].failedAt = "create")
            => /\ ~call[c].unlinked
               /\ call[c].diskBefore \subseteq disk

\* createFile failed for a known content whose file sits at the call's own
\* constPath, where a cleanup would have hit it.
C2_Witness ==
    \E c \in Calls :
        /\ Finished(c) /\ call[c].fileInfo # NoRecord /\ call[c].failedAt = "create"
        /\ TargetOf(c) \in call[c].diskBefore
        /\ TargetOf(c) \in disk

\* C3: when createFile throws, the saveFile call ends in a thrown failure and
\* never completes normally with a value.
C3_CreateFailureIsThrown ==
    \A c \in Calls :
        (Finished(c) /\ call[c].failedAt = "create") => call[c].result = Threw

\* C4: a call whose lookup returned an existing record never invokes file.mv,
\* whatever the logical path and allowDuplicates.
C4_NoDuplicateWrite ==
    \A c \in Calls : call[c].fileInfo # NoRecord => call[c].mvCalls = 0

\* A call that found a record went on to create a further one, without a write.
C4_Witness ==
    \E c \in Calls :
        /\ Finished(c) /\ call[c].fileInfo # NoRecord
        /\ call[c].createCalls = 1 /\ call[c].result.kind = "record"
        /\ call[c].mvCalls = 0 /\ disk = call[c].diskBefore

\* C5 as stated: with a store that keeps every record it created, the folder
\* holds at most one file per hash and no content is written to disk twice.
C5_WrittenAtMostOnce ==
    ~overwritten =>
        \A h \in Hashes : Cardinality(FilesOfHash(h)) <= 1 /\ writes[h] <= 1

\* C5, amended: with a store that keeps every record it created, the folder
\* holds at most one file per hash, and a content is written again only after
\* a rollback removed its file (writes exceed rollbacks by at most one).
C5_AtMostOnePhysicalCopy ==
    ~overwritten =>
        \A h \in Hashes :
            /\ Cardinality(FilesOfHash(h)) <= 1
            /\ writes[h] <= rollbacks[h] + 1

\* A content was written, rolled back, written again and recorded; later
\* uploads of it under another name found the record and its one file.
C5_Witness ==
    /\ ~overwritten
    /\ \E h \in Hashes :
        /\ writes[h] = 2 /\ rollbacks[h] = 1
        /\ Cardinality(FilesOfHash(h)) = 1
        /\ \E r \in Range(store) : r.hash = h
        /\ \E c \in Calls :
            /\ Finished(c) /\ call[c].hash = h /\ call[c].fileInfo # NoRecord
            /\ TargetOf(c) \notin disk

\* C6: with allowDuplicates = false the store never holds two records with
\* the same hash and the same logical path.
C6_NoSecondEntryAtSamePath ==
    ~allowDuplicates =>
        \A i, j \in 1..Len(store) :
            (i # j /\ store[i].hash = store[j].hash) => store[i].path # store[j].path

\* The record r without its url.
Stored(r) ==
    [id |-> r.id, name |-> r.name, extension |-> r.extension, hash |-> r.hash,
     size |-> r.size, type |-> r.type, path |-> r.path]

\* C7: with allowDuplicates = false, a save of bytes whose record already sits
\* at the requested logical path returns that record unchanged (same id, url =
\* mask + "/" + id), writes no file and creates no record: createFile is not
\* invoked, store and disk are as before the call.
C7_ConflictNoOp ==
    \A c \in Calls :
        (/\ Finished(c) /\ ~allowDuplicates
         /\ call[c].fileInfo # NoRecord
         /\ call[c].fileInfo.path = call[c].filePath)
            => /\ call[c].result.kind = "record"
               /\ Stored(call[c].result.file) = call[c].fileInfo
               /\ call[c].fileInfo \in Range(call[c].storeBefore)
               /\ call[c].result.file.url = <<"m", "/">> \o call[c].fileInfo.id.text
               /\ call[c].mvCalls = 0
               /\ call[c].createCalls = 0
               /\ store = call[c].storeBefore
               /\ disk = call[c].diskBefore

\* The second of two saves of the same bytes at the same logical path: the
\* store holds the first call's record only, and the call returned it.
C7_Witness ==
    \E c \in Calls :
        /\ Finished(c) /\ ~allowDuplicates /\ saves = 2
        /\ Len(store) = 1
        /\ store[1].hash = call[c].hash /\ store[1].path = call[c].filePath
        /\ call[c].fileInfo = store[1]
        /\ call[c].result.kind = "record"
        /\ call[c].result.file.id = store[1].id
        /\ call[c].id # store[1].id

IsUid(id) == id.kind = "string" /\ Len(id.text) = 2 /\ id.text[1] = "u"

\* C9: the second of two saves of the same bytes at different logical paths,
\* createFile succeeding and ids coming from uid(), leaves exactly two records
\* with distinct ids that both reference the one physical file, which the
\* second call did not write.
C9_TwoRecordsOneFile ==
    \A c \in Calls :
        (/\ Finished(c) /\ call[c].result.kind = "record" /\ call[c].createCalls = 1
         /\ call[c].storeBefore = <<call[c].fileInfo>>
         /\ call[c].fileInfo.path # call[c].filePath
         /\ IsUid(call[c].id) /\ IsUid(call[c].fileInfo.id))
            => /\ Len(store) = 2
               /\ store[1].id # store[2].id
               /\ store[1].hash = store[2].hash
               /\ call[c].mvCalls = 0
               /\ Cardinality(FilesOfHash(call[c].hash)) = 1
               /\ \A i \in 1..2 : ConstPath(store[i].hash, store[i].extension) \in disk

\* C10: a failure of getFileByHash or of file.mv ends the call in a thrown
\* failure, with no record returned, createFile not invoked and the store as
\* before the call.
C10_UpstreamFailureIsThrown ==
    \A c \in Calls :
        (Finished(c) /\ call[c].failedAt \in {"lookup", "mv"})
            => /\ call[c].result = Threw
               /\ call[c].createCalls = 0
               /\ store = call[c].storeBefore

\* file.mv failed for a new content while the store already held records.
C10_Witness ==
    \E c \in Calls :
        /\ Finished(c) /\ call[c].failedAt = "mv"
        /\ call[c].mvCalls = 1 /\ call[c].fileInfo = NoRecord
        /\ Len(store) >= 1
        /\ call[c].result.kind = "threw"

\* C11: with allowDuplicates = false, repeated uploads of identical content
\* never produce a further distinct metadata entry for that content.
C11_OneEntryPerContent ==
    ~allowDuplicates =>
        \A i, j \in 1..Len(store) : i # j => store[i].hash # store[j].hash

----------------------------------------------------------------------------
\* idToUrl and urlToId on their own: every short mask and id

\* Longest mask and longest string id tried.
MaxMaskLen == 2
MaxIdLen == 2

\* The strings over the alphabet of at most n characters.
StringsUpTo(alphabet, n) == UNION {[1..k -> alphabet] : k \in 0..n}

\* config.mask and the ids handed to idToUrl: strings that may hold the mask's
\* own characters, and numbers.
CodecMasks == StringsUpTo({"m", "/"}, MaxMaskLen)
CodecIds ==
    {Str(t) : t \in StringsUpTo({"m", "/", "7"}, MaxIdLen)}
        \cup {Num(<<"7">>), Num(<<"0">>)}

InitCodec ==
    /\ allowDuplicates = FALSE
    /\ mask \in CodecMasks
    /\ store = <<>>
    /\ disk = {}
    /\ nextUid = 0
    /\ saves = 0
    /\ call = [c \in Calls |-> IdleCall]
    /\ writes = [h \in Hashes |-> 0]
    /\ rollbacks = [h \in Hashes |-> 0]
    /\ overwritten = FALSE
    /\ op = NoOp
    /\ codec \in {[IdleCodec EXCEPT !.id = id] : id \in CodecIds}

\* idToUrl(id), under the configured mask and under the mask with a separator
\* appended to it.
ApplyIdToUrl ==
    /\ codec.pc = "idle"
    /\ codec' = [codec EXCEPT !.pc = "url",
                              !.url = IdToUrl(mask, codec.id),
                              !.sibling = IdToUrl(mask \o <<"/">>, codec.id)]
    /\ UNCHANGED <<allowDuplicates, mask, store, disk, nextUid, saves, call,
                   writes, rollbacks, overwritten, op>>

\* urlToId(url) of the url just built.
ApplyUrlToId ==
    /\ codec.pc = "url"
    /\ codec' = [codec EXCEPT !.pc = "id", !.back = UrlToId(mask, codec.url)]
    /\ UNCHANGED <<allowDuplicates, mask, store, disk, nextUid, saves, call,
                   writes, rollbacks, overwritten, op>>

NextCodec == ApplyIdToUrl \/ ApplyUrlToId

SpecCodec == InitCodec /\ [][NextCodec]_vars

\* C12 as stated: for every id and mask, urlToId(idToUrl(id)) equals id.
C12_RoundTripAnyId == codec.pc = "id" => codec.back = codec.id

\* C12, amended: for every mask, urlToId(idToUrl(id)) is the string holding
\* id's text: id itself when id is a string, its decimal text when a number.
C12_RoundTrip ==
    codec.pc = "id" =>
        /\ codec.back.kind = "string"
        /\ codec.back.text = codec.id.text
        /\ codec.id.kind = "string" => codec.back = codec.id

\* A string id holding the mask's own characters came back unchanged under a
\* mask without a trailing separator.
C12_Witness ==
    /\ codec.pc = "id"
    /\ mask = <<"m">>
    /\ codec.id = Str(<<"m", "/">>)
    /\ codec.url = <<"m", "/", "m", "/">>
    /\ codec.back = codec.id

\* C13: idToUrl puts exactly one "/" between the mask and the id: a mask
\* without a trailing "/" gets one, and yields the url of that mask + "/";
\* a mask with a trailing "/" gets none.
C13_MaskSeparator ==
    codec.pc # "idle" =>
        IF EndsWithSlash(mask)
        THEN codec.url = mask \o codec.id.text
        ELSE /\ codec.url = mask \o <<"/">> \o codec.id.text
             /\ codec.url = codec.sibling

\* A mask without a trailing "/" got one separator, and the url is the one
\* the mask with a trailing "/" yields.
C13_Witness ==
    /\ codec.pc # "idle"
    /\ mask = <<"m">>
    /\ codec.id = Str(<<"7">>)
    /\ codec.url = <<"m", "/", "7">>
    /\ codec.sibling = <<"m", "/", "7">>

----------------------------------------------------------------------------
\* resolveFilePath, deleteFileByHash and deleteFileById

\* getFileById of the quick-start store: files.get(id), undefined when absent.
GetFileById(st, id) ==
    IF \E i \in 1..Len(st) : st[i].id = id
    THEN st[CHOOSE i \in 1..Len(st) : st[i].id = id]
    ELSE NoRecord

\* Faulty variant: the path is built from the hash alone.
ResolveFilePath_WithoutExtension(st, id, lookupThrows) ==
    LET fileInfo == GetFileById(st, id)
    IN  IF lookupThrows \/ fileInfo = NoRecord
        THEN NoRecord
        ELSE [filePath |-> ConstPath(fileInfo.hash, ""), fileName |-> fileInfo.name]

\* Faulty variant: the stored file's name is given as the file name.
ResolveFilePath_StoredName(st, id, lookupThrows) ==
    LET fileInfo == GetFileById(st, id)
    IN  IF lookupThrows \/ fileInfo = NoRecord
        THEN NoRecord
        ELSE [filePath |-> ConstPath(fileInfo.hash, fileInfo.extension),
              fileName |-> fileInfo.hash]

\* resolveFilePath (lines 149-158).  A lookup that throws, and the
\* destructuring of the undefined a lookup may resolve to, both land in the
\* catch, which logs and returns nothing.
ResolveFilePath(st, id, lookupThrows) ==
    LET fileInfo == GetFileById(st, id)
    IN  IF lookupThrows \/ fileInfo = NoRecord
        THEN NoRecord
        ELSE [filePath |-> ConstPath(fileInfo.hash, fileInfo.extension),
              fileName |-> fileInfo.name]

\* Faulty variant: the whole file name is compared with the hash.
MatchesHash_WholeName(f, hash) == f.hash = hash /\ f.ext = ""

\* Line 273: f.split(".")[0] === hash.  The name is hash + extension, and
\* neither a digest nor the text before an extension's dot holds a dot.
MatchesHash(f, hash) == f.hash = hash

\* The ids and hashes the helpers are called with: known ones and unknown ones.
IdArguments == {Uid(0), Str(<<"7">>), Str(<<"8">>)}
HashArguments == Hashes \cup {"h9"}

\* What a helper call leaves in op.
Outcome(name, hash, id, lookupThrew, result, resolved) ==
    [name |-> name, hash |-> hash, id |-> id, lookupThrew |-> lookupThrew,
     result |-> result, resolved |-> resolved,
     storeBefore |-> store, diskBefore |-> disk]

\* resolveFilePath(id)
ResolveFilePathCall(id, lookupThrows) ==
    /\ op = NoOp
    /\ LET resolved == ResolveFilePath(store, id, lookupThrows)
       IN  op' = Outcome("resolveFilePath", "", id, lookupThrows,
                         IF resolved = NoRecord THEN "empty" ELSE "value",
                         resolved)
    /\ UNCHANGED <<allowDuplicates, mask, store, disk, nextUid, saves, call,
                   writes, rollbacks, overwritten, codec>>

\* deleteFileByHash (lines 270-282): the first directory entry that matches is
\* unlinked; readdirSync promises no order, so any matching entry may be it.
DeleteFileByHash(hash) ==
    /\ op = NoOp
    /\ LET matching == {f \in disk : MatchesHash(f, hash)}
       IN  IF matching = {}
           THEN /\ op' = Outcome("deleteFileByHash", hash, NoId, FALSE,
                                 "notFound", NoRecord)
                /\ disk' = disk
           ELSE \E fileToDelete \in matching :
                /\ disk' = disk \ {fileToDelete}
                /\ op' = Outcome("deleteFileByHash", hash, NoId, FALSE,
                                 "ok", NoRecord)
    /\ UNCHANGED <<allowDuplicates, mask, store, nextUid, saves, call,
                   writes, rollbacks, overwritten, codec>>

\* deleteFileById (lines 283-294): NotFound when resolveFilePath returns
\* nothing; else unlinkSync of the resolved path, which throws ENOENT when no
\* file is there.  Every failure is rethrown by the catch.
DeleteFileById(id, lookupThrows) ==
    /\ op = NoOp
    /\ LET resolved == ResolveFilePath(store, id, lookupThrows)
       IN  IF resolved = NoRecord
           THEN /\ op' = Outcome("deleteFileById", "", id, lookupThrows,
                                 "notFound", resolved)
                /\ disk' = disk
           ELSE /\ op' = Outcome("deleteFileById", "", id, lookupThrows,
                                 IF resolved.filePath \in disk THEN "ok" ELSE "enoent",
                                 resolved)
                /\ disk' = disk \ {resolved.filePath}
    /\ UNCHANGED <<allowDuplicates, mask, store, nextUid, saves, call,
                   writes, rollbacks, overwritten, codec>>

\* The caller has the helper's outcome.
HelperReturn ==
    /\ op # NoOp
    /\ op' = NoOp
    /\ UNCHANGED <<allowDuplicates, mask, store, disk, nextUid, saves, call,
                   writes, rollbacks, overwritten, codec>>

\* Number of saveFile calls in a behaviour that also calls the helpers.
MaxSavesWithHelpers == 2

\* Non-overlapping calls of saveFile and of the helpers.
NextWithHelpers ==
    \/ \E c \in Calls, data \in Contents, name \in Names,
          fp \in FilePathOptions, id \in IdOptions :
            /\ NoneInFlight /\ op = NoOp
            /\ saves < MaxSavesWithHelpers
            /\ Start(c, [name |-> name, data |-> data],
                     [filePath |-> fp, id |-> id, additionalData |-> NoData])
    \/ \E c \in Calls : Lookup(c)
    \/ \E c \in Calls : LookupThrows(c)
    \/ \E c \in Calls : Mv(c)
    \/ \E c \in Calls : MvThrows(c)
    \/ \E c \in Calls : AfterMv(c)
    \/ \E c \in Calls : CreateOk(c)
    \/ \E c \in Calls : CreateThrows(c)
    \/ \E c \in Calls : Return(c)
    \/ \E id \in IdArguments, lookupThrows \in BOOLEAN :
            NoneInFlight /\ ResolveFilePathCall(id, lookupThrows)
    \/ \E hash \in HashArguments : NoneInFlight /\ DeleteFileByHash(hash)
    \/ \E id \in IdArguments, lookupThrows \in BOOLEAN :
            NoneInFlight /\ DeleteFileById(id, lookupThrows)
    \/ HelperReturn

SpecWithHelpers == Init /\ [][NextWithHelpers]_vars

\* C14: deleteFileByHash(hash) with no file of that hash in the folder fails
\* with NotFound and leaves the disk as it was; with a matching file, exactly
\* one matching file is unlinked and every other file stays.
C14_DeleteFileByHash ==
    op.name = "deleteFileByHash" =>
        LET matching == {f \in op.diskBefore : f.hash = op.hash}
        IN  IF matching = {}
            THEN op.result = "notFound" /\ disk = op.diskBefore
            ELSE /\ op.result = "ok"
                 /\ \E f \in matching : disk = op.diskBefore \ {f}

\* A file was unlinked by its hash while a file of another hash stayed.
C14_Witness ==
    /\ op.name = "deleteFileByHash" /\ op.result = "ok"
    /\ Cardinality(op.diskBefore) = 2
    /\ \E f \in disk : f.hash # op.hash
    /\ \A f \in disk : f.hash # op.hash

\* C18: whenever saveFile completes by returning a record R, the file
\* publicFolder/(R.hash + R.extension) exists on disk.
C18_ReturnedRecordHasItsFile ==
    \A c \in Calls :
        (Finished(c) /\ call[c].result.kind = "record")
            => ConstPath(call[c].result.file.hash, call[c].result.file.extension)
                   \in disk

\* The records of a store that carry the id.
RecordsWithId(st, id) == {r \in Range(st) : r.id = id}

\* C19: deleteFileById(id) fails with NotFound and leaves the disk as it was
\* when resolveFilePath(id) yields nothing; otherwise it unlinks exactly
\* publicFolder/(hash + extension) of the record with that id; the metadata
\* store is never changed.
C19_DeleteFileById ==
    op.name = "deleteFileById" =>
        /\ store = op.storeBefore
        /\ IF op.resolved = NoRecord
           THEN op.result = "notFound" /\ disk = op.diskBefore
           ELSE /\ op.result \in {"ok", "enoent"}
                /\ \E r \in RecordsWithId(op.storeBefore, op.id) :
                     disk = op.diskBefore \ {[hash |-> r.hash, ext |-> r.extension]}

\* The file of a stored record was unlinked by the record's id: the record is
\* still in the store, another file is still on disk.
C19_Witness ==
    /\ op.name = "deleteFileById" /\ op.result = "ok"
    /\ op.resolved.filePath \in op.diskBefore
    /\ op.resolved.filePath \notin disk
    /\ disk # {}
    /\ RecordsWithId(store, op.id) # {}

\* C20: resolveFilePath(id) changes neither disk nor store and never throws;
\* it returns nothing when the lookup throws or yields no record, and else
\* filePath = publicFolder/(hash + extension), fileName = name of the record.
C20_ResolveFilePath ==
    op.name = "resolveFilePath" =>
        /\ store = op.storeBefore
        /\ disk = op.diskBefore
        /\ op.result \in {"empty", "value"}
        /\ IF op.lookupThrew \/ RecordsWithId(op.storeBefore, op.id) = {}
           THEN op.result = "empty" /\ op.resolved = NoRecord
           ELSE /\ op.result = "value"
                /\ \E r \in RecordsWithId(op.storeBefore, op.id) :
                     op.resolved = [filePath |-> [hash |-> r.hash, ext |-> r.extension],
                                    fileName |-> r.name]

\* The path and name of a stored record were returned.
C20_Witness ==
    /\ op.name = "resolveFilePath" /\ op.result = "value"
    /\ op.resolved.fileName = "a.txt"
    /\ op.resolved.filePath = [hash |-> "h1", ext |-> ".txt"]
    /\ Len(store) = 2

\* The lookup threw for the id of a stored record: nothing was returned.
C20_WitnessThrow ==
    /\ op.name = "resolveFilePath" /\ op.lookupThrew
    /\ RecordsWithId(store, op.id) # {}
    /\ op.resolved = NoRecord

----------------------------------------------------------------------------
\* saveFile with every kind of options.id and options.additionalData

\* Number of saveFile calls in a behaviour that passes these options.
MaxSavesWithOptions == 2

NextWithOptions ==
    \/ \E c \in Calls, data \in Contents, name \in Names, fp \in FilePathOptions,
          id \in AnyIdOptions, additionalData \in AdditionalDataOptions :
            /\ NoneInFlight
            /\ saves < MaxSavesWithOptions
            /\ Start(c, [name |-> name, data |-> data],
                     [filePath |-> fp, id |-> id, additionalData |-> additionalData])
    \/ \E c \in Calls : Lookup(c)
    \/ \E c \in Calls : LookupThrows(c)
    \/ \E c \in Calls : Mv(c)
    \/ \E c \in Calls : MvThrows(c)
    \/ \E c \in Calls : AfterMv(c)
    \/ \E c \in Calls : CreateOk(c)
    \/ \E c \in Calls : CreateThrows(c)
    \/ \E c \in Calls : Return(c)

SpecWithOptions == Init /\ [][NextWithOptions]_vars

\* C15: the record handed to createFile carries options.id whenever the caller
\* passed one, and otherwise an id produced by uid(); no other option changes it.
C15_IdOverride ==
    \A c \in Calls :
        call[c].createCalls = 1 =>
            IF call[c].optionsId # NoId
            THEN call[c].fileData.id = call[c].optionsId
            ELSE IsUid(call[c].fileData.id)

----------------------------------------------------------------------------
\* Overlapping saveFile calls

\* Number of saveFile calls in a behaviour whose calls may overlap.
MaxOverlappingSaves == 2

\* A call may start while another is in flight; each call proceeds from
\* await to await on its own.  Ids come from uid().
NextOverlapping ==
    \/ \E c \in Calls, data \in Contents, name \in Names, fp \in FilePathOptions :
            /\ saves < MaxOverlappingSaves
            /\ Start(c, [name |-> name, data |-> data],
                     [filePath |-> fp, id |-> NoId, additionalData |-> NoData])
    \/ \E c \in Calls : Lookup(c)
    \/ \E c \in Calls : LookupThrows(c)
    \/ \E c \in Calls : Mv(c)
    \/ \E c \in Calls : MvThrows(c)
    \/ \E c \in Calls : AfterMv(c)
    \/ \E c \in Calls : CreateOk(c)
    \/ \E c \in Calls : CreateThrows(c)
    \/ \E c \in Calls : Return(c)

SpecOverlapping == Init /\ [][NextOverlapping]_vars

\* The call has its answer from getFileByHash, and the answer was: no record.
SawNoRecord(c) ==
    /\ call[c].pc \notin {"idle", "lookup"}
    /\ call[c].failedAt \notin {"decode", "lookup"}
    /\ call[c].fileInfo = NoRecord

\* C16: when two overlapping calls for the same bytes and name both saw no
\* record and both have finished, and createFile succeeded for at least one,
\* the file publicFolder/(hash + extension) is on disk.
C16_RollbackSparesSharedFile ==
    \A c, d \in Calls :
        (/\ c # d /\ Finished(c) /\ Finished(d)
         /\ SawNoRecord(c) /\ SawNoRecord(d)
         /\ call[c].hash = call[d].hash /\ call[c].name = call[d].name
         /\ call[c].result.kind = "record")
            => TargetOf(c) \in disk

\* C17: nothing keeps two calls for the same bytes apart: of two calls that
\* both saw no record, each invokes file.mv, and each invokes createFile once
\* its own disk steps are through.
C17_NoSingleFlight ==
    \A c, d \in Calls :
        (c # d /\ SawNoRecord(c) /\ SawNoRecord(d) /\ call[c].hash = call[d].hash)
            => /\ call[c].mvCalls = 1
               /\ (\/ call[c].pc = "create"
                   \/ Finished(c) /\ call[c].failedAt \in {"", "create"})
                      => call[c].createCalls = 1

\* Two calls for the same bytes, both told "no record", both having invoked
\* file.mv, both waiting for their own createFile.
C17_Witness ==
    \E c, d \in Calls :
        /\ c # d /\ call[c].hash = call[d].hash
        /\ call[c].name = call[d].name
        /\ SawNoRecord(c) /\ SawNoRecord(d)
        /\ call[c].mvCalls = 1 /\ call[d].mvCalls = 1
        /\ call[c].pc = "create" /\ call[d].pc = "create"
        /\ call[c].createCalls = 1 /\ call[d].createCalls = 1
        /\ writes[call[c].hash] = 2

\* C21: whenever getFileByHash returned a record and line 224 decides on a
\* metadata write, the write is attempted with the found record's size and
\* type, statSync is not evaluated, and the call does not fail at statSync
\* for want of a file at constPath -- for every size, 0 included.
C21_ReuseOfSizeAndType ==
    \A c \in Calls :
        (/\ call[c].fileInfo # NoRecord
         /\ ShouldCreate(call[c].fileInfo, call[c].filePath, allowDuplicates))
            => /\ ~NeedsStat(call[c].fileInfo)
               /\ call[c].failedAt # "stat"
               /\ call[c].createCalls = 1
               /\ call[c].fileData.size = call[c].fileInfo.size
               /\ call[c].fileData.type = call[c].fileInfo.type

====
